---- MODULE Spec2Model ----
(***************************************************************************)
(* Event-log to trajectory conversion of the code-editing agent.           *)
(*                                                                         *)
(* Two converters are modelled:                                            *)
(*   "flat"  - src/packages/cea/benchmark/harbor_agent.py                  *)
(*             (user / assistant / tool_call / tool_result events)         *)
(*   "block" - src/harbor_agent.py                                         *)
(*             (user / assistant events with content blocks)               *)
(* together with populate_context_post_run, which drives a conversion and  *)
(* pushes the token totals into the context sink.                          *)
(***************************************************************************)
EXTENDS Integers, Sequences, FiniteSets, TLC

\* Longest log (number of lines) explored.
MaxLines == 3

(***************************************************************************)
(* Python values                                                           *)
(***************************************************************************)
\* None where the other values are strings.
None == "None"

\* None where the other values are integers (a token count that is absent).
NoCount == 0 - 1

\* dict.get(key, default)
Get(d, key, default) == IF key \in DOMAIN d THEN d[key] ELSE default

\* bool(s) of a string-or-None value
TruthyStr(s) == s # None /\ s # ""

\* bool(n) of an int-or-None value
TruthyInt(n) == n # NoCount /\ n # 0

\* a or b, on string-or-None values
OrStr(a, b) == IF TruthyStr(a) THEN a ELSE b

\* n or None
OrNone(n) == IF TruthyInt(n) THEN n ELSE NoCount

\* Mutant of OrZero: the total is pushed as it is, absent or not.
OrZero_KeepsNone(n) == n

\* n or 0
OrZero(n) == IF TruthyInt(n) THEN n ELSE 0

\* isinstance(v, dict) for a decoded JSON value; a value that is not an
\* object is a record with the single field "nondict".
IsDict(v) == "nondict" \notin DOMAIN v

(***************************************************************************)
(* The log: lines of the flat and of the content-block encoding            *)
(***************************************************************************)
BlankLine == [k |-> "blank"]
GarbageLine == [k |-> "garbage"]
JsonLine(v) == [k |-> "json", v |-> v]

\* A line holding valid JSON that is not an object, e.g. 42.
ScalarLine == JsonLine([nondict |-> "42"])

FlatEvents ==
  { [type |-> "user", sessionId |-> "s1", content |-> "fix bug"],
    [type |-> "assistant", content |-> "done", model |-> "m1",
     reasoning_content |-> "think",
     usage |-> [input_tokens |-> 3, output_tokens |-> 2]],
    [type |-> "tool_call", tool_call_id |-> "a", tool_name |-> "read_file",
     tool_input |-> "{path}", timestamp |-> "t1"],
    [type |-> "tool_call"],
    [type |-> "tool_result", tool_call_id |-> "a", output |-> "hello"],
    [type |-> "tool_result", tool_call_id |-> "a", output |-> "out",
     error |-> "warn"],
    [type |-> "tool_result", tool_call_id |-> "", error |-> "boom"],
    [type |-> "tool_result", output |-> "y"],
    [sessionId |-> "s2"] }

TextBlock == [type |-> "text", text |-> "hi"]
ToolUse1 == [type |-> "tool_use", id |-> "t1", name |-> "bash", input |-> "{ls}"]
ToolUse2 == [type |-> "tool_use", id |-> "t2", name |-> "edit"]

BlockEvents ==
  { [type |-> "user", sessionId |-> "s1",
     message |-> [content |-> [str |-> "fix bug"]]],
    [type |-> "user", message |-> [nondict |-> "fix bug"]],
    [type |-> "assistant", timestamp |-> "t1",
     message |-> [content |-> [str |-> "done"], model |-> "m1",
                  usage |-> [input_tokens |-> 3, output_tokens |-> 2]]],
    [type |-> "assistant",
     message |-> [content |-> [list |-> <<TextBlock, ToolUse1, ToolUse2>>],
                  usage |-> [input_tokens |-> 0, output_tokens |-> 1,
                             cache_read_input_tokens |-> 4]],
     toolUseResult |-> [stdout |-> "ok"]],
    [type |-> "assistant",
     message |-> [content |-> [list |-> <<ToolUse2>>]],
     toolUseResult |-> <<>>],
    [type |-> "assistant",
     message |-> [content |-> [str |-> ""],
                  usage |-> [nondict |-> "12 tokens"]]],
    [type |-> "assistant", toolUseResult |-> [stdout |-> "orphan"]],
    [type |-> "assistant",
     message |-> [content |-> [list |-> <<ToolUse1>>]],
     toolUseResult |-> [nondict |-> "ok"]],
    [type |-> "tool_result", tool_call_id |-> "t1", output |-> "late"] }

FlatLines ==
  {BlankLine, GarbageLine, ScalarLine} \cup {JsonLine(e) : e \in FlatEvents}

BlockLines ==
  {BlankLine, GarbageLine, ScalarLine} \cup {JsonLine(e) : e \in BlockEvents}

RECURSIVE SeqsUpTo(_, _)
SeqsUpTo(S, n) ==
  IF n = 0 THEN {<<>>}
  ELSE LET shorter == SeqsUpTo(S, n - 1)
       IN  shorter \cup {Append(s, x) : s \in {t \in shorter : Len(t) = n - 1}, x \in S}

Logs(variant, n) == SeqsUpTo(IF variant = "flat" THEN FlatLines ELSE BlockLines, n)

\* Longest log explored at the fallback location logs_dir/output.jsonl.
MaxAltLines == 1

\* The configured model name of the run (may be empty) and the values of
\* the context sink before the call (never set, or set earlier).  The two
\* vary together: the conversion never reads the sink.
Runs ==
  { [model_name |-> "",
     ctx |-> [n_input_tokens |-> NoCount, n_output_tokens |-> NoCount,
              n_cache_tokens |-> NoCount]],
    [model_name |-> "cfg",
     ctx |-> [n_input_tokens |-> 5, n_output_tokens |-> 6, n_cache_tokens |-> 7]] }

(***************************************************************************)
(* Trajectory data types (harbor.models.trajectories)                      *)
(***************************************************************************)
\* {} : the empty dict
EmptyDict == <<>>

\* bool(d) of a dict-or-other JSON value: only the empty dict is falsy here.
TruthyDict(d) == DOMAIN d # {}

\* Step.observation = None
NoObservation == [present |-> FALSE, results |-> <<>>]

\* Step.metrics = None
NoMetrics ==
  [present |-> FALSE, prompt_tokens |-> NoCount,
   completion_tokens |-> NoCount, cached_tokens |-> NoCount]

\* Step.tool_calls = None
NoToolCalls == <<>>

ToolCall(id, name, args) ==
  [tool_call_id |-> id, function_name |-> name, arguments |-> args]

ObservationResult(id, content) == [source_call_id |-> id, content |-> content]

Observation(results) == [present |-> TRUE, results |-> results]

Metrics(p, c, k) ==
  [present |-> TRUE, prompt_tokens |-> p, completion_tokens |-> c, cached_tokens |-> k]

Step(id, ts, source, message, model, reasoning, calls, obs, metrics) ==
  [step_id |-> id, timestamp |-> ts, source |-> source, message |-> message,
   model_name |-> model, reasoning_content |-> reasoning, tool_calls |-> calls,
   observation |-> obs, metrics |-> metrics]

\* The builder state of one pass: the step list, the step counter, and
\* whether the pass was abandoned by an exception.
Builder(steps, step_id, raised) ==
  [steps |-> steps, step_id |-> step_id, raised |-> raised]

Raise(b) == [b EXCEPT !.raised = TRUE]

(***************************************************************************)
(* Flat converter: one operator per branch of the event loop               *)
(***************************************************************************)
FlatOnUser(b, ev) ==
  LET sid == b.step_id + 1
  IN  Builder(Append(b.steps,
                Step(sid, Get(ev, "timestamp", None), "user",
                     Get(ev, "content", ""), None, None,
                     NoToolCalls, NoObservation, NoMetrics)),
              sid, FALSE)

\* Mutant of FlatOnToolCall: the step is built with a placeholder result
\* for its call instead of no observation.
FlatOnToolCall_PendingObservation(b, ev, model_name) ==
  LET sid == b.step_id + 1
  IN  Builder(Append(b.steps,
                Step(sid, Get(ev, "timestamp", None), "agent", "Tool execution",
                     OrStr(Get(ev, "model", None), model_name),
                     Get(ev, "reasoning_content", None),
                     <<ToolCall(Get(ev, "tool_call_id", ""),
                                Get(ev, "tool_name", ""),
                                Get(ev, "tool_input", "{}"))>>,
                     Observation(<<ObservationResult(Get(ev, "tool_call_id", ""), "")>>),
                     NoMetrics)),
              sid, FALSE)

FlatOnToolCall(b, ev, model_name) ==
  LET sid == b.step_id + 1
  IN  Builder(Append(b.steps,
                Step(sid, Get(ev, "timestamp", None), "agent", "Tool execution",
                     OrStr(Get(ev, "model", None), model_name),
                     Get(ev, "reasoning_content", None),
                     <<ToolCall(Get(ev, "tool_call_id", ""),
                                Get(ev, "tool_name", ""),
                                Get(ev, "tool_input", "{}"))>>,
                     NoObservation, NoMetrics)),
              sid, FALSE)

\* Mutant of FlatOnAssistant: the step carries Metrics read from the
\* event's usage data.
FlatOnAssistant_WithMetrics(b, ev, model_name) ==
  LET sid   == b.step_id + 1
      usage == Get(ev, "usage", <<>>)
  IN  Builder(Append(b.steps,
                Step(sid, Get(ev, "timestamp", None), "agent",
                     Get(ev, "content", ""),
                     OrStr(Get(ev, "model", None), model_name),
                     Get(ev, "reasoning_content", None),
                     NoToolCalls, NoObservation,
                     IF DOMAIN usage # {}
                       THEN Metrics(Get(usage, "input_tokens", NoCount),
                                    Get(usage, "output_tokens", NoCount),
                                    Get(usage, "cache_read_input_tokens", NoCount))
                       ELSE NoMetrics)),
              sid, FALSE)

FlatOnAssistant(b, ev, model_name) ==
  LET sid == b.step_id + 1
  IN  Builder(Append(b.steps,
                Step(sid, Get(ev, "timestamp", None), "agent",
                     Get(ev, "content", ""),
                     OrStr(Get(ev, "model", None), model_name),
                     Get(ev, "reasoning_content", None),
                     NoToolCalls, NoObservation, NoMetrics)),
              sid, FALSE)

\* The text of a tool_result: its output, with the error as a labelled suffix.
ResultContent(ev) ==
  LET output == Get(ev, "output", "")
      error  == Get(ev, "error", None)
  IN  IF TruthyStr(error)
      THEN IF TruthyStr(output)
           THEN output \o "\nSTDERR: " \o error
           ELSE "STDERR: " \o error
      ELSE output

\* Mutant of StepMatches: any agent step with tool calls matches, whatever the id.
StepMatches_AnyId(step, id) ==
  /\ step.source = "agent"
  /\ Len(step.tool_calls) > 0

\* any(tc.tool_call_id == id for tc in step.tool_calls) on an agent step
StepMatches(step, id) ==
  /\ step.source = "agent"
  /\ Len(step.tool_calls) > 0
  /\ \E k \in 1..Len(step.tool_calls) : step.tool_calls[k].tool_call_id = id

\* Mutant of ReverseSearch: the steps are scanned oldest first.
RECURSIVE ForwardFrom(_, _, _)
ForwardFrom(steps, id, j) ==
  IF j > Len(steps) THEN 0
  ELSE IF StepMatches(steps[j], id) THEN j
  ELSE ForwardFrom(steps, id, j + 1)

ReverseSearch_OldestFirst(steps, id, i) == ForwardFrom(steps, id, 1)

\* for step in reversed(steps): the index of the first match, scanning from
\* position i down to 1; 0 when no step matches.
RECURSIVE ReverseSearch(_, _, _)
ReverseSearch(steps, id, i) ==
  IF i = 0 THEN 0
  ELSE IF StepMatches(steps[i], id) THEN i
  ELSE ReverseSearch(steps, id, i - 1)

\* Mutant of Attach: a later result is put in front of the earlier ones.
Attach_Prepends(step, result) ==
  IF step.observation.present
  THEN [step EXCEPT !.observation.results = <<result>> \o @]
  ELSE [step EXCEPT !.observation = Observation(<<result>>)]

\* Mutant of Attach: the result is also written into the step's message.
Attach_RewritesMessage(step, result) ==
  IF step.observation.present
  THEN [step EXCEPT !.observation.results = Append(@, result),
                    !.message = result.content]
  ELSE [step EXCEPT !.observation = Observation(<<result>>),
                    !.message = result.content]

\* Mutant of Attach: the observation is replaced by one holding the new result.
Attach_Overwrites(step, result) ==
  [step EXCEPT !.observation = Observation(<<result>>)]

\* Append to the step's observation, or create it with this one result.
Attach(step, result) ==
  IF step.observation.present
  THEN [step EXCEPT !.observation.results = Append(@, result)]
  ELSE [step EXCEPT !.observation = Observation(<<result>>)]

\* if tool_call_id and steps: the guard of the correlation
CorrelationGuard(id, steps) == TruthyStr(id) /\ Len(steps) > 0

\* Mutant of FlatOnToolResult: an unmatched result becomes a step of its own.
FlatOnToolResult_OrphanStep(b, ev) ==
  LET id      == Get(ev, "tool_call_id", None)
      content == ResultContent(ev)
      i       == IF CorrelationGuard(id, b.steps)
                 THEN ReverseSearch(b.steps, id, Len(b.steps)) ELSE 0
  IN  IF i = 0
      THEN Builder(Append(b.steps,
                     Step(b.step_id + 1, Get(ev, "timestamp", None), "agent", content,
                          None, None, NoToolCalls, NoObservation, NoMetrics)),
                   b.step_id + 1, FALSE)
      ELSE [b EXCEPT !.steps[i] = Attach(@, ObservationResult(id, content))]

FlatOnToolResult(b, ev) ==
  LET id      == Get(ev, "tool_call_id", None)
      content == ResultContent(ev)
  IN  IF CorrelationGuard(id, b.steps)
      THEN LET i == ReverseSearch(b.steps, id, Len(b.steps))
           IN  IF i = 0 THEN b
               ELSE [b EXCEPT !.steps[i] = Attach(@, ObservationResult(id, content))]
      ELSE b

(***************************************************************************)
(* Content-block converter: one operator per branch of the event loop      *)
(***************************************************************************)
\* str(block) of one content block
BlockRepr(block) ==
  IF IsDict(block)
  THEN "{" \o Get(block, "type", "") \o ":" \o Get(block, "text", Get(block, "id", "")) \o "}"
  ELSE block.nondict

RECURSIVE ListRepr(_, _)
ListRepr(blocks, i) ==
  IF i > Len(blocks) THEN ""
  ELSE BlockRepr(blocks[i]) \o (IF i < Len(blocks) THEN ", " ELSE "") \o ListRepr(blocks, i + 1)

\* str(content): the string itself, or the printed form of the list
PyStr(content) ==
  IF "list" \in DOMAIN content
  THEN "[" \o ListRepr(content.list, 1) \o "]"
  ELSE content.str

BlockOnUser(b, ev) ==
  LET message == Get(ev, "message", EmptyDict)
      sid     == b.step_id + 1
  IN  IF ~IsDict(message)
      THEN Builder(b.steps, sid, TRUE)
      ELSE Builder(Append(b.steps,
                     Step(sid, Get(ev, "timestamp", None), "user",
                          PyStr(Get(message, "content", [str |-> ""])),
                          None, None, NoToolCalls, NoObservation, NoMetrics)),
                   sid, FALSE)

\* The tool_use blocks of a content list, in order, as ToolCalls.
RECURSIVE ExtractToolCalls(_, _)
ExtractToolCalls(blocks, i) ==
  IF i > Len(blocks) THEN <<>>
  ELSE LET block == blocks[i]
       IN  IF IsDict(block) /\ Get(block, "type", None) = "tool_use"
           THEN <<ToolCall(Get(block, "id", ""), Get(block, "name", ""),
                           Get(block, "input", "{}"))>>
                \o ExtractToolCalls(blocks, i + 1)
           ELSE ExtractToolCalls(blocks, i + 1)

\* The other blocks of a content list, stringified and concatenated.
RECURSIVE ExtractText(_, _)
ExtractText(blocks, i) ==
  IF i > Len(blocks) THEN ""
  ELSE LET block == blocks[i]
       IN  IF IsDict(block) /\ Get(block, "type", None) = "tool_use"
           THEN ExtractText(blocks, i + 1)
           ELSE BlockRepr(block) \o ExtractText(blocks, i + 1)

\* metrics = Metrics(...) if usage else None
StepMetrics(usage) ==
  IF TruthyDict(usage)
  THEN Metrics(Get(usage, "input_tokens", NoCount),
               Get(usage, "output_tokens", NoCount),
               Get(usage, "cache_read_input_tokens", NoCount))
  ELSE NoMetrics

\* Mutant of EmbeddedObservation: the result is attached whether or not a
\* tool call was extracted.
EmbeddedObservation_NoCallNeeded(tool_result, tool_calls) ==
  IF TruthyDict(tool_result)
  THEN Observation(<<ObservationResult(
                       IF Len(tool_calls) > 0 THEN tool_calls[1].tool_call_id ELSE "",
                       Get(tool_result, "stdout", ""))>>)
  ELSE NoObservation

\* Mutant of EmbeddedObservation: the result is bound to the last tool call.
EmbeddedObservation_LastCall(tool_result, tool_calls) ==
  IF TruthyDict(tool_result) /\ Len(tool_calls) > 0
  THEN Observation(<<ObservationResult(tool_calls[Len(tool_calls)].tool_call_id,
                                       Get(tool_result, "stdout", ""))>>)
  ELSE NoObservation

\* The observation built from toolUseResult, bound to the first tool call.
EmbeddedObservation(tool_result, tool_calls) ==
  IF TruthyDict(tool_result) /\ Len(tool_calls) > 0
  THEN Observation(<<ObservationResult(tool_calls[1].tool_call_id,
                                       Get(tool_result, "stdout", ""))>>)
  ELSE NoObservation

BlockOnAssistant(b, ev, model_name) ==
  LET message == Get(ev, "message", EmptyDict)
      sid     == b.step_id + 1
  IN  IF ~IsDict(message)
      THEN Builder(b.steps, sid, TRUE)
      ELSE
        LET content     == Get(message, "content", [str |-> ""])
            model       == Get(message, "model", None)
            usage       == Get(message, "usage", EmptyDict)
            isList      == "list" \in DOMAIN content
            tool_calls  == IF isList THEN ExtractToolCalls(content.list, 1) ELSE <<>>
            text        == IF isList THEN ExtractText(content.list, 1) ELSE PyStr(content)
            tool_result == Get(ev, "toolUseResult", EmptyDict)
        IN  IF TruthyDict(usage) /\ ~IsDict(usage)
            THEN Builder(b.steps, sid, TRUE)
            ELSE IF TruthyDict(tool_result) /\ Len(tool_calls) > 0 /\ ~IsDict(tool_result)
            THEN Builder(b.steps, sid, TRUE)
            ELSE Builder(Append(b.steps,
                           Step(sid, Get(ev, "timestamp", None), "agent",
                                OrStr(text, "Tool execution"),
                                OrStr(model, model_name), None,
                                IF Len(tool_calls) > 0 THEN tool_calls ELSE NoToolCalls,
                                EmbeddedObservation(tool_result, tool_calls),
                                StepMetrics(usage))),
                         sid, FALSE)

(***************************************************************************)
(* The event loop                                                          *)
(***************************************************************************)
\* Mutant of EventBranch: the last branch is an else, taken by every event
\* that no earlier branch took.
EventBranch_ElseAssistant(variant, ev) ==
  IF ~IsDict(ev) THEN "raise"
  ELSE LET event_type == Get(ev, "type", None)
       IN  IF event_type = "user" THEN "user"
           ELSE IF variant = "flat" /\ event_type = "tool_call" THEN "tool_call"
           ELSE IF variant = "flat" /\ event_type = "tool_result" THEN "tool_result"
           ELSE "assistant"

\* Which branch of the if/elif chain an event takes.
EventBranch(variant, ev) ==
  IF ~IsDict(ev) THEN "raise"
  ELSE LET event_type == Get(ev, "type", None)
       IN  IF event_type = "user" THEN "user"
           ELSE IF variant = "flat" /\ event_type = "tool_call" THEN "tool_call"
           ELSE IF variant = "flat" /\ event_type = "tool_result" THEN "tool_result"
           ELSE IF event_type = "assistant" THEN "assistant"
           ELSE "skip"

\* Mutant of ProcessEvent: an event that opens no step still bumps the counter.
ProcessEvent_CountsAll(variant, b, ev, model_name) ==
  LET branch == EventBranch(variant, ev)
  IN  IF branch = "raise" THEN Raise(b)
      ELSE IF branch = "user"
           THEN (IF variant = "flat" THEN FlatOnUser(b, ev) ELSE BlockOnUser(b, ev))
      ELSE IF branch = "tool_call" THEN FlatOnToolCall(b, ev, model_name)
      ELSE IF branch = "tool_result"
           THEN [FlatOnToolResult(b, ev) EXCEPT !.step_id = @ + 1]
      ELSE IF branch = "assistant"
           THEN (IF variant = "flat" THEN FlatOnAssistant(b, ev, model_name)
                 ELSE BlockOnAssistant(b, ev, model_name))
      ELSE [b EXCEPT !.step_id = @ + 1]

\* One iteration of `for event in events`.
ProcessEvent(variant, b, ev, model_name) ==
  LET branch == EventBranch(variant, ev)
  IN  IF branch = "raise" THEN Raise(b)
      ELSE IF branch = "user"
           THEN (IF variant = "flat" THEN FlatOnUser(b, ev) ELSE BlockOnUser(b, ev))
      ELSE IF branch = "tool_call" THEN FlatOnToolCall(b, ev, model_name)
      ELSE IF branch = "tool_result" THEN FlatOnToolResult(b, ev)
      ELSE IF branch = "assistant"
           THEN (IF variant = "flat" THEN FlatOnAssistant(b, ev, model_name)
                 ELSE BlockOnAssistant(b, ev, model_name))
      ELSE b

(***************************************************************************)
(* Decoding the log                                                        *)
(***************************************************************************)
\* Mutant of DecodeLine: a line that is not JSON is not skipped; the error
\* it raises surfaces where a non-object value would.
DecodeLine_KeepsGarbage(events, line) ==
  IF line.k = "blank" THEN events
  ELSE IF line.k = "garbage" THEN Append(events, [nondict |-> "garbage"])
  ELSE Append(events, line.v)

\* One line: skipped when blank or not JSON, appended otherwise.
DecodeLine(events, line) ==
  IF line.k = "blank" THEN events
  ELSE IF line.k = "garbage" THEN events
  ELSE Append(events, line.v)

RECURSIVE DecodeFrom(_, _, _)
DecodeFrom(events, lines, i) ==
  IF i > Len(lines) THEN events
  ELSE DecodeFrom(DecodeLine(events, lines[i]), lines, i + 1)

DecodeLines(lines) == DecodeFrom(<<>>, lines, 1)

(***************************************************************************)
(* Aggregation and assembly                                                *)
(***************************************************************************)
\* Mutant of SumField: the total is overwritten by each step, not added to.
RECURSIVE SumField_Overwrites(_, _, _)
SumField_Overwrites(steps, field, i) ==
  IF i > Len(steps) THEN 0
  ELSE LET later == SumField_Overwrites(steps, field, i + 1)
       IN  IF later # 0 THEN later
           ELSE IF steps[i].metrics.present /\ TruthyInt(steps[i].metrics[field])
                THEN steps[i].metrics[field] ELSE 0

\* sum(s.metrics.f for s in steps if s.metrics and s.metrics.f)
RECURSIVE SumField(_, _, _)
SumField(steps, field, i) ==
  IF i > Len(steps) THEN 0
  ELSE (IF steps[i].metrics.present /\ TruthyInt(steps[i].metrics[field])
        THEN steps[i].metrics[field] ELSE 0)
       + SumField(steps, field, i + 1)

FinalMetrics(steps) ==
  [total_prompt_tokens     |-> OrNone(SumField(steps, "prompt_tokens", 1)),
   total_completion_tokens |-> OrNone(SumField(steps, "completion_tokens", 1)),
   total_cached_tokens     |-> OrNone(SumField(steps, "cached_tokens", 1)),
   total_steps             |-> Len(steps)]

NoTrajectory == [present |-> FALSE]

Trajectory(session_id, model_name, steps) ==
  [present |-> TRUE, schema_version |-> "ATIF-v1.4", session_id |-> session_id,
   agent |-> [name |-> "code-editing-agent", model_name |-> model_name],
   steps |-> steps, final_metrics |-> FinalMetrics(steps)]

\* _get_log_file: where the log is found; None when it is not found.
GetLogFile(variant, logAt) ==
  IF logAt = "agent" THEN "agent"
  ELSE IF variant = "flat" /\ logAt = "alt" THEN "alt"
  ELSE None

\* The loop over events[i..], stopped by the first exception.
RECURSIVE RunEvents(_, _, _, _, _)
RunEvents(variant, b, evs, i, model_name) ==
  IF i > Len(evs) \/ b.raised THEN b
  ELSE RunEvents(variant, ProcessEvent(variant, b, evs[i], model_name), evs, i + 1, model_name)

Result(outcome, trajectory) == [outcome |-> outcome, trajectory |-> trajectory]

\* _convert_events_to_trajectory as seen by its caller: what a log converts to.
Convert(variant, ls, model_name) ==
  LET evs == DecodeLines(ls)
  IN  IF Len(evs) = 0 THEN Result("no_data", NoTrajectory)
      ELSE IF ~IsDict(evs[1]) THEN Result("exception", NoTrajectory)
      ELSE LET b == RunEvents(variant, Builder(<<>>, 0, FALSE), evs, 1, model_name)
           IN  IF b.raised THEN Result("exception", NoTrajectory)
               ELSE IF Len(b.steps) = 0 THEN Result("no_data", NoTrajectory)
               ELSE Result("ok", Trajectory(Get(evs[1], "sessionId", "unknown"),
                                            model_name, b.steps))

(***************************************************************************)
(* populate_context_post_run as a state machine                            *)
(***************************************************************************)
VARIABLES
  variant,      \* which converter runs: "flat" or "block"
  logAt,        \* where output.jsonl is: "agent" (logs_dir/agent), "alt" (logs_dir), "none"
  lines,        \* the lines of the log file that is found (none when it is not found)
  model_name,   \* self.model_name
  ctx,          \* the context sink (AgentContext)
  pc,           \* position in populate_context_post_run
  events,       \* decoded events
  session_id,   \* session id taken from the first event
  idx,          \* index of the next event of the loop
  steps,        \* steps built so far
  step_id,      \* the step counter
  trajectory,   \* the trajectory returned by the conversion
  written,      \* trajectory.json was written
  outcome       \* how the call ended: "running", "no_log", "no_data", "exception", "ok"

vars == <<variant, logAt, lines, model_name, ctx, pc, events, session_id, idx,
          steps, step_id, trajectory, written, outcome>>

env == <<variant, logAt, lines, model_name>>

Init ==
  /\ variant \in {"flat", "block"}
  /\ logAt \in {"agent", "alt", "none"}
  /\ lines \in (IF GetLogFile(variant, logAt) = None THEN {<<>>}
               ELSE IF logAt = "alt" THEN Logs(variant, MaxAltLines)
               ELSE Logs(variant, MaxLines))
  /\ \E run \in Runs : model_name = run.model_name /\ ctx = run.ctx
  /\ pc = "start"
  /\ events = <<>>
  /\ session_id = None
  /\ idx = 1
  /\ steps = <<>>
  /\ step_id = 0
  /\ trajectory = NoTrajectory
  /\ written = FALSE
  /\ outcome = "running"

\* Mutant of Abandon: the failure path resets the sink.
Abandon_ClearsSink(how) ==
  /\ pc' = "done"
  /\ outcome' = how
  /\ ctx' = [n_input_tokens |-> 0, n_output_tokens |-> 0, n_cache_tokens |-> 0]
  /\ UNCHANGED <<trajectory, written>>

\* The call returns without a trajectory.
Abandon(how) ==
  /\ pc' = "done"
  /\ outcome' = how
  /\ UNCHANGED <<ctx, trajectory, written>>

\* log_file is None: report and return.
NoLogFile ==
  /\ pc = "start"
  /\ GetLogFile(variant, logAt) = None
  /\ Abandon("no_log")
  /\ UNCHANGED <<env, events, session_id, idx, steps, step_id>>

\* The decoder loop found no event: return None.
ReadLogEmpty ==
  /\ pc = "start"
  /\ GetLogFile(variant, logAt) # None
  /\ DecodeLines(lines) = <<>>
  /\ events' = <<>>
  /\ Abandon("no_data")
  /\ UNCHANGED <<env, session_id, idx, steps, step_id>>

\* The decoder loop found events.
ReadLog ==
  /\ pc = "start"
  /\ GetLogFile(variant, logAt) # None
  /\ DecodeLines(lines) # <<>>
  /\ events' = DecodeLines(lines)
  /\ pc' = "decoded"
  /\ UNCHANGED <<env, ctx, session_id, idx, steps, step_id, trajectory, written, outcome>>

\* session_id = events[0].get("sessionId", "unknown")
StartPass ==
  /\ pc = "decoded"
  /\ IsDict(events[1])
  /\ session_id' = Get(events[1], "sessionId", "unknown")
  /\ steps' = <<>>
  /\ step_id' = 0
  /\ idx' = 1
  /\ pc' = "loop"
  /\ UNCHANGED <<env, ctx, events, trajectory, written, outcome>>

\* events[0] is not an object: .get raises, caught by the caller.
StartPassRaises ==
  /\ pc = "decoded"
  /\ ~IsDict(events[1])
  /\ Abandon("exception")
  /\ UNCHANGED <<env, events, session_id, idx, steps, step_id>>

InLoop == pc = "loop" /\ idx <= Len(events)

\* The builder after the loop body has run on events[idx].
AfterEvent ==
  ProcessEvent(variant, Builder(steps, step_id, FALSE), events[idx], model_name)

\* Mutant of Advance: the exception is not caught and leaves the call.
Advance_Uncaught(b) ==
  /\ steps' = b.steps
  /\ step_id' = b.step_id
  /\ IF b.raised
     THEN /\ pc' = "done"
          /\ outcome' = "propagated"
          /\ idx' = idx
          /\ UNCHANGED <<ctx, trajectory, written>>
     ELSE /\ idx' = idx + 1
          /\ UNCHANGED <<pc, outcome, ctx, trajectory, written>>
  /\ UNCHANGED <<env, events, session_id>>

\* The loop moves on with builder b, or the exception b carries ends the call.
Advance(b) ==
  /\ steps' = b.steps
  /\ step_id' = b.step_id
  /\ IF b.raised
     THEN /\ Abandon("exception")
          /\ idx' = idx
     ELSE /\ idx' = idx + 1
          /\ UNCHANGED <<pc, outcome, ctx, trajectory, written>>
  /\ UNCHANGED <<env, events, session_id>>

\* A user event opens a user step.
OnUser ==
  /\ InLoop
  /\ EventBranch(variant, events[idx]) = "user"
  /\ Advance(AfterEvent)

\* A tool_call event opens an agent step with one ToolCall (flat only).
OnToolCall ==
  /\ InLoop
  /\ EventBranch(variant, events[idx]) = "tool_call"
  /\ Advance(AfterEvent)

\* A tool_result event is correlated with the steps built so far (flat only).
OnToolResult ==
  /\ InLoop
  /\ EventBranch(variant, events[idx]) = "tool_result"
  /\ Advance(AfterEvent)

\* An assistant event opens an agent step.
OnAssistant ==
  /\ InLoop
  /\ EventBranch(variant, events[idx]) = "assistant"
  /\ Advance(AfterEvent)

\* No branch of the chain matches: the event is ignored.
OnOther ==
  /\ InLoop
  /\ EventBranch(variant, events[idx]) = "skip"
  /\ Advance(AfterEvent)

\* event.get on a value that is not an object raises.
OnNonObject ==
  /\ InLoop
  /\ EventBranch(variant, events[idx]) = "raise"
  /\ Advance(AfterEvent)

\* Mutant of EndNoSteps: the empty step list is assembled all the same.
EndNoSteps_Assembles ==
  /\ pc = "loop"
  /\ idx > Len(events)
  /\ steps = <<>>
  /\ trajectory' = Trajectory(session_id, model_name, steps)
  /\ pc' = "write"
  /\ UNCHANGED <<env, ctx, events, session_id, idx, steps, step_id, written, outcome>>

\* if not steps: return None
EndNoSteps ==
  /\ pc = "loop"
  /\ idx > Len(events)
  /\ steps = <<>>
  /\ Abandon("no_data")
  /\ UNCHANGED <<env, events, session_id, idx, steps, step_id>>

\* Totals are summed and the trajectory is returned.
Assemble ==
  /\ pc = "loop"
  /\ idx > Len(events)
  /\ steps # <<>>
  /\ trajectory' = Trajectory(session_id, model_name, steps)
  /\ pc' = "write"
  /\ UNCHANGED <<env, ctx, events, session_id, idx, steps, step_id, written, outcome>>

\* trajectory.json is written.
WriteTrajectory ==
  /\ pc = "write"
  /\ written' = TRUE
  /\ pc' = "push"
  /\ UNCHANGED <<env, ctx, events, session_id, idx, steps, step_id, trajectory, outcome>>

\* Mutant of WriteFails: the OSError is not caught and ends the call.
WriteFails_Aborts ==
  /\ pc = "write"
  /\ written' = FALSE
  /\ pc' = "done"
  /\ outcome' = "propagated"
  /\ UNCHANGED <<env, ctx, events, session_id, idx, steps, step_id, trajectory>>

\* The write raises OSError, which is caught and reported.
WriteFails ==
  /\ pc = "write"
  /\ written' = FALSE
  /\ pc' = "push"
  /\ UNCHANGED <<env, ctx, events, session_id, idx, steps, step_id, trajectory, outcome>>

\* The three token counts are pushed into the sink.
PushMetrics ==
  /\ pc = "push"
  /\ ctx' = [n_input_tokens  |-> OrZero(trajectory.final_metrics.total_prompt_tokens),
             n_output_tokens |-> OrZero(trajectory.final_metrics.total_completion_tokens),
             n_cache_tokens  |-> OrZero(trajectory.final_metrics.total_cached_tokens)]
  /\ pc' = "done"
  /\ outcome' = "ok"
  /\ UNCHANGED <<env, events, session_id, idx, steps, step_id, trajectory, written>>

Next ==
  \/ NoLogFile
  \/ ReadLogEmpty
  \/ ReadLog
  \/ StartPass
  \/ StartPassRaises
  \/ OnUser
  \/ OnToolCall
  \/ OnToolResult
  \/ OnAssistant
  \/ OnOther
  \/ OnNonObject
  \/ EndNoSteps
  \/ Assemble
  \/ WriteTrajectory
  \/ WriteFails
  \/ PushMetrics

Spec == Init /\ [][Next]_vars

TypeOK ==
  /\ pc \in {"start", "decoded", "loop", "write", "push", "done"}
  /\ outcome \in {"running", "no_log", "no_data", "exception", "ok"}
  /\ written \in BOOLEAN
  /\ step_id \in 0..(MaxLines + 1)

(***************************************************************************)
(* Properties                                                              *)
(***************************************************************************)
\* The types of the events that open a step.
StepTypes(v) ==
  IF v = "flat" THEN {"user", "assistant", "tool_call"} ELSE {"user", "assistant"}

\* A decoded value that is an object whose type opens a step.
OpensStep(v, ev) == IsDict(ev) /\ Get(ev, "type", None) \in StepTypes(v)

\* Number of step-opening events among the first n decoded events.
OpenedBy(v, evs, n) == Cardinality({i \in 1..n : OpensStep(v, evs[i])})

\* Number of lines of the log that hold a step-opening event.
OpeningLines(v, ls) ==
  Cardinality({i \in 1..Len(ls) : ls[i].k = "json" /\ OpensStep(v, ls[i].v)})

\* The step ids of a step list are 1, 2, ..., in order.
Numbered(stps) == \A i \in 1..Len(stps) : stps[i].step_id = i

\* C1: the step ids of the produced steps are exactly 1..N in increasing
\* order without gap or repeat, N being the number of step-creating events
\* (user, assistant, and in the flat converter tool_call): during the pass N
\* counts the events processed so far, in the returned trajectory it counts
\* the step-creating lines of the whole log, whatever else is interleaved.
C1_StepIds ==
  /\ (pc = "loop" =>
        /\ Numbered(steps)
        /\ Len(steps) = OpenedBy(variant, events, idx - 1)
        /\ step_id = Len(steps))
  /\ (trajectory.present =>
        /\ Numbered(trajectory.steps)
        /\ Len(trajectory.steps) = OpeningLines(variant, lines)
        /\ trajectory.final_metrics.total_steps = OpeningLines(variant, lines))

\* C1 witness: a trajectory of two steps was produced from a log whose
\* middle line, between the two step-creating events, creates no step.
C1_Witness ==
  /\ trajectory.present
  /\ Len(trajectory.steps) = 2
  /\ Len(lines) = 3
  /\ ~(lines[2].k = "json" /\ OpensStep(variant, lines[2].v))

\* The steps holding a ToolCall with the given call id.
HoldersOf(stps, id) ==
  {i \in 1..Len(stps) :
     \E k \in 1..Len(stps[i].tool_calls) : stps[i].tool_calls[k].tool_call_id = id}

\* The call id a tool_result event carries (None when it carries none).
CallIdOf(ev) == Get(ev, "tool_call_id", None)

\* The next step of the flat converter processes a tool_result event.
ResultStep ==
  /\ variant = "flat"
  /\ InLoop
  /\ EventBranch(variant, events[idx]) = "tool_result"
  /\ idx' = idx + 1

\* Step i gains exactly the result of the event being processed, at the end.
GainsResult(i) ==
  /\ steps'[i].observation.present
  /\ steps'[i].observation.results =
       Append(steps[i].observation.results,
              ObservationResult(CallIdOf(events[idx]), ResultContent(events[idx])))

\* Every step but those of the set keeps its observation.
OthersKeep(set) ==
  \A j \in (1..Len(steps)) \ set : steps'[j].observation = steps[j].observation

\* The last event processed by the flat converter was a tool_result.
ResultProcessed ==
  /\ variant = "flat"
  /\ pc = "loop"
  /\ idx > 1
  /\ EventBranch(variant, events[idx - 1]) = "tool_result"

\* C2 as stated: a tool_result whose call id matches a ToolCall in exactly
\* one previously built step attaches its content to that step's observation
\* and creates no step, for every call id including the empty string.
C2_AnyId ==
  [][(ResultStep /\ Cardinality(HoldersOf(steps, CallIdOf(events[idx]))) = 1) =>
       /\ Len(steps') = Len(steps)
       /\ step_id' = step_id
       /\ \A i \in HoldersOf(steps, CallIdOf(events[idx])) : GainsResult(i)]_vars

\* C2 as amended: a tool_result whose non-empty call id matches a ToolCall in
\* exactly one previously built step attaches its content to that step's
\* observation and creates no step; a result with the empty call id is not
\* attached, even to a call that has the empty id.
C2_NonEmptyId ==
  [][(ResultStep /\ Cardinality(HoldersOf(steps, CallIdOf(events[idx]))) = 1) =>
       /\ Len(steps') = Len(steps)
       /\ step_id' = step_id
       /\ \A i \in HoldersOf(steps, CallIdOf(events[idx])) :
            IF CallIdOf(events[idx]) = ""
            THEN steps'[i].observation = steps[i].observation
            ELSE GainsResult(i)]_vars

\* C2 witness: a tool_result with a non-empty id was just attached to the
\* only step holding that id, among several steps.
C2_Witness ==
  /\ ResultProcessed
  /\ Len(steps) >= 2
  /\ LET id == CallIdOf(events[idx - 1])
     IN  /\ id # ""
         /\ Cardinality(HoldersOf(steps, id)) = 1
         /\ \A i \in HoldersOf(steps, id) :
              /\ steps[i].observation.present
              /\ steps[i].observation.results[Len(steps[i].observation.results)]
                   = ObservationResult(id, ResultContent(events[idx - 1]))

\* The newest step holding the call id.
Newest(stps, id) == CHOOSE i \in HoldersOf(stps, id) : \A j \in HoldersOf(stps, id) : j <= i

\* C3 as stated: when the call id of a tool_result matches ToolCalls in
\* several previously built steps, exactly one result is added, to the
\* matching step with the highest step_id, and the earlier matching steps
\* keep their observation.
C3_AnyId ==
  [][(ResultStep /\ Cardinality(HoldersOf(steps, CallIdOf(events[idx]))) >= 2) =>
       /\ GainsResult(Newest(steps, CallIdOf(events[idx])))
       /\ OthersKeep({Newest(steps, CallIdOf(events[idx]))})]_vars

\* C3 as amended: when the non-empty call id of a tool_result matches
\* ToolCalls in several previously built steps, exactly one result is added,
\* to the matching step with the highest step_id, and every other step keeps
\* its observation; with the empty call id no result is added at all.
C3_NonEmptyId ==
  [][(ResultStep /\ Cardinality(HoldersOf(steps, CallIdOf(events[idx]))) >= 2) =>
       IF CallIdOf(events[idx]) = ""
       THEN OthersKeep({})
       ELSE /\ GainsResult(Newest(steps, CallIdOf(events[idx])))
            /\ steps[Newest(steps, CallIdOf(events[idx]))].step_id
                 > steps[CHOOSE j \in HoldersOf(steps, CallIdOf(events[idx])) :
                           j # Newest(steps, CallIdOf(events[idx]))].step_id
            /\ OthersKeep({Newest(steps, CallIdOf(events[idx]))})]_vars

\* C3 witness: a tool_result with a reused non-empty id was just processed;
\* the newest holder has the result and an older holder has no observation.
C3_Witness ==
  /\ ResultProcessed
  /\ LET id == CallIdOf(events[idx - 1])
     IN  /\ id # ""
         /\ Cardinality(HoldersOf(steps, id)) >= 2
         /\ steps[Newest(steps, id)].observation.present
         /\ \E j \in HoldersOf(steps, id) :
              j < Newest(steps, id) /\ ~steps[j].observation.present

\* C4: a tool_result whose call id matches no ToolCall of any step built so
\* far is dropped: step list, step counter and observations are unchanged
\* and the pass goes on without an error.
C4_Dropped ==
  [][(/\ variant = "flat"
      /\ InLoop
      /\ EventBranch(variant, events[idx]) = "tool_result"
      /\ HoldersOf(steps, CallIdOf(events[idx])) = {}) =>
       /\ steps' = steps
       /\ step_id' = step_id
       /\ pc' = "loop"
       /\ outcome' = "running"
       /\ idx' = idx + 1]_vars

\* C4 witness: a tool_result with an id that no step holds was just
\* processed while a step with a ToolCall of another id exists.
C4_Witness ==
  /\ ResultProcessed
  /\ TruthyStr(CallIdOf(events[idx - 1]))
  /\ HoldersOf(steps, CallIdOf(events[idx - 1])) = {}
  /\ \E i \in 1..Len(steps) : Len(steps[i].tool_calls) > 0

\* C5: in the flat converter a step's observation.results only grows by one
\* result appended at the end, and only in a step in which it is the newest
\* step holding a ToolCall with the appended result's call id.
C5_AppendOnly ==
  [][variant = "flat" =>
       \A i \in 1..Len(steps) :
         /\ i <= Len(steps')
         /\ \/ steps'[i].observation = steps[i].observation
            \/ LET old == steps[i].observation.results
                   new == steps'[i].observation.results
               IN  /\ steps'[i].observation.present
                   /\ Len(new) = Len(old) + 1
                   /\ SubSeq(new, 1, Len(old)) = old
                   /\ i \in HoldersOf(steps, new[Len(new)].source_call_id)
                   /\ \A j \in HoldersOf(steps, new[Len(new)].source_call_id) : j <= i]_vars

\* C5 witness: a step of the flat converter holds two different results
\* while a newer step with a ToolCall exists.
C5_Witness ==
  /\ variant = "flat"
  /\ \E i \in 1..Len(steps) :
       /\ Len(steps[i].observation.results) >= 2
       /\ steps[i].observation.results[1] # steps[i].observation.results[2]

\* C6: a step of populate_context_post_run that does not complete a
\* successful call assigns no token count of the sink, so a call that ends
\* without a trajectory (no log, no events, no steps, exception) leaves the
\* three counts as they were before the call.
C6_SinkUntouched ==
  [][~(pc' = "done" /\ outcome' = "ok") => ctx' = ctx]_vars

\* C6 witness: a call that had built a step ended by an exception and the
\* sink still holds the counts set before the call.
C6_Witness ==
  /\ pc = "done"
  /\ outcome = "exception"
  /\ Len(steps) >= 1
  /\ ctx = [n_input_tokens |-> 5, n_output_tokens |-> 6, n_cache_tokens |-> 7]

\* All decoded events are objects.
AllObjects == \A i \in 1..Len(events) : IsDict(events[i])

\* No decoded event opens a step.
NoneOpens == \A i \in 1..Len(events) : ~OpensStep(variant, events[i])

\* The fields the content-block converter calls .get on are objects.
WellShaped(ev) ==
  LET message == Get(ev, "message", EmptyDict)
  IN  /\ IsDict(message)
      /\ IsDict(Get(message, "usage", EmptyDict))
      /\ IsDict(Get(ev, "toolUseResult", EmptyDict))

\* A call that found a log has returned.
Converted == pc = "done" /\ outcome # "no_log"

\* The call ended with a trajectory that has steps.
Produced ==
  /\ outcome = "ok"
  /\ trajectory.present
  /\ Len(trajectory.steps) >= 1

ParseableLines(ls) == SelectSeq(ls, LAMBDA l : l.k = "json")

\* C8: converting a log gives the same result (outcome, steps, ids,
\* observations, totals, session id) as converting the log with all blank
\* and unparseable lines removed, the other lines kept in order.
C8_MalformedIgnored ==
  Converted =>
    Result(outcome, trajectory) = Convert(variant, ParseableLines(lines), model_name)

\* C8 witness: a log with an unparseable line between two step-creating
\* events was converted to a trajectory of two steps.
C8_Witness ==
  /\ Converted
  /\ Len(lines) = 3
  /\ lines[2].k = "garbage"
  /\ Produced
  /\ Len(trajectory.steps) = 2

\* A line of the log holds JSON that is not an object.
HasNonObjectLine ==
  \E i \in 1..Len(lines) : lines[i].k = "json" /\ ~IsDict(lines[i].v)

\* C9: when a line parses as JSON that is not an object, the failure is
\* caught inside populate_context_post_run: the call returns with the
\* "exception" outcome, no trajectory is returned or written, and no step of
\* the call changes the sink, whatever the other lines are.
C9_Caught ==
  [][HasNonObjectLine =>
       /\ ctx' = ctx
       /\ written' = FALSE
       /\ trajectory' = NoTrajectory
       /\ pc' \notin {"write", "push"}
       /\ (pc' = "done" => outcome' = "exception")]_vars

\* C9 witness: a call whose log holds a non-object line after a valid
\* step-creating event has returned with the exception caught.
C9_Witness ==
  /\ HasNonObjectLine
  /\ pc = "done"
  /\ outcome = "exception"
  /\ Len(steps) >= 1
  /\ ~written

\* The sum of a token field over the first n steps, a step without Metrics
\* or without the field adding nothing.
RECURSIVE PresentSum(_, _, _)
PresentSum(stps, field, n) ==
  IF n = 0 THEN 0
  ELSE PresentSum(stps, field, n - 1)
       + (IF stps[n].metrics.present /\ stps[n].metrics[field] # NoCount
          THEN stps[n].metrics[field] ELSE 0)

\* A total as reported: absent when it is zero.
Reported(sum) == IF sum = 0 THEN NoCount ELSE sum

\* C10: in the content-block converter each run-level total equals the sum
\* of that field over the steps that carry Metrics, an absent field adding
\* nothing, and a total of zero is reported as absent.
C10_Totals ==
  (variant = "block" /\ trajectory.present) =>
    LET n == Len(trajectory.steps)
        fm == trajectory.final_metrics
    IN  /\ fm.total_prompt_tokens = Reported(PresentSum(trajectory.steps, "prompt_tokens", n))
        /\ fm.total_completion_tokens = Reported(PresentSum(trajectory.steps, "completion_tokens", n))
        /\ fm.total_cached_tokens = Reported(PresentSum(trajectory.steps, "cached_tokens", n))

\* C10 witness: two steps with Metrics add up to a prompt total of 6 while
\* the cached total, zero, is absent.
C10_Witness ==
  /\ variant = "block"
  /\ trajectory.present
  /\ Cardinality({i \in 1..Len(trajectory.steps) : trajectory.steps[i].metrics.present}) >= 2
  /\ trajectory.final_metrics.total_prompt_tokens = 6
  /\ trajectory.final_metrics.total_cached_tokens = NoCount

\* A run-level total as a sink value: 0 when the total is absent.
AsCount(total) == IF total = NoCount THEN 0 ELSE total

\* The sink holds the three totals of the trajectory, absent totals as 0.
SinkHoldsTotals ==
  /\ ctx.n_input_tokens = AsCount(trajectory.final_metrics.total_prompt_tokens)
  /\ ctx.n_output_tokens = AsCount(trajectory.final_metrics.total_completion_tokens)
  /\ ctx.n_cache_tokens = AsCount(trajectory.final_metrics.total_cached_tokens)

\* C11: after a successful conversion the sink's three counts are the
\* trajectory's run-level totals (input = prompt, output = completion,
\* cache = cached), 0 standing for an absent total, so that each count is a
\* non-negative integer and none is absent.
C11_SinkSet ==
  (pc = "done" /\ outcome = "ok") =>
    /\ trajectory.present
    /\ SinkHoldsTotals
    /\ ctx.n_input_tokens \in Nat
    /\ ctx.n_output_tokens \in Nat
    /\ ctx.n_cache_tokens \in Nat

\* C11 witness: a successful call whose sink was never set before holds a
\* prompt total of several steps and 0 for the absent cached total.
C11_Witness ==
  /\ pc = "done"
  /\ outcome = "ok"
  /\ model_name = ""
  /\ ctx.n_input_tokens = 6
  /\ ctx.n_cache_tokens = 0
  /\ trajectory.final_metrics.total_cached_tokens = NoCount

\* C12: a failed write of the trajectory file does not end the call with an
\* error: the call goes on to the sink and completes with the three token
\* counts of the converted trajectory pushed, the file not being written.
C12_WriteFailureNonFatal ==
  (trajectory.present /\ ~written /\ pc \in {"push", "done"}) =>
    /\ outcome \in {"running", "ok"}
    /\ (pc = "push" => outcome = "running")
    /\ (pc = "done" => outcome = "ok" /\ SinkHoldsTotals)

\* C12 witness: the call completed although the write failed, and the sink,
\* set before the call to other values, holds the totals of the trajectory.
C12_Witness ==
  /\ pc = "done"
  /\ outcome = "ok"
  /\ ~written
  /\ model_name = "cfg"
  /\ ctx.n_input_tokens = 3
  /\ ctx.n_output_tokens = 2
  /\ ctx.n_cache_tokens = 0

\* The content blocks of an assistant event (none when the content is text).
ContentBlocks(ev) ==
  LET message == Get(ev, "message", EmptyDict)
      content == IF IsDict(message) THEN Get(message, "content", [str |-> ""])
                 ELSE [str |-> ""]
  IN  IF "list" \in DOMAIN content THEN content.list ELSE <<>>

\* The positions of the tool_use blocks of an assistant event.
ToolUseAt(ev) ==
  {k \in 1..Len(ContentBlocks(ev)) :
     /\ IsDict(ContentBlocks(ev)[k])
     /\ Get(ContentBlocks(ev)[k], "type", None) = "tool_use"}

\* The id of the first tool_use block of an assistant event.
FirstToolUseId(ev) ==
  LET first == CHOOSE k \in ToolUseAt(ev) : \A j \in ToolUseAt(ev) : k <= j
  IN  Get(ContentBlocks(ev)[first], "id", "")

\* The event has a toolUseResult field.
CarriesResult(ev) == "toolUseResult" \in DOMAIN ev

\* The toolUseResult of the event is a non-empty object.
CarriesResultObject(ev) ==
  /\ CarriesResult(ev)
  /\ IsDict(ev.toolUseResult)
  /\ DOMAIN ev.toolUseResult # {}

\* The message and the usage of the event are objects (or absent).
MessageShaped(ev) ==
  /\ IsDict(Get(ev, "message", EmptyDict))
  /\ IsDict(Get(Get(ev, "message", EmptyDict), "usage", EmptyDict))

\* The next step of the content-block converter processes an assistant event.
AssistantStep ==
  /\ variant = "block"
  /\ InLoop
  /\ EventBranch(variant, events[idx]) = "assistant"

\* The step just appended has exactly one result, bound to the given call id.
NewStepHasOneResult(id) ==
  /\ Len(steps') = Len(steps) + 1
  /\ steps'[Len(steps')].observation.present
  /\ Len(steps'[Len(steps')].observation.results) = 1
  /\ steps'[Len(steps')].observation.results[1].source_call_id = id

\* A step was just appended, without an observation.
NewStepHasNoObservation ==
  /\ Len(steps') = Len(steps) + 1
  /\ steps'[Len(steps')].observation = NoObservation

\* No step built so far is changed.
BuiltStepsKept ==
  \A i \in 1..Len(steps) : i <= Len(steps') /\ steps'[i] = steps[i]

\* C13 as stated: in the content-block converter an assistant event that
\* carries a toolUseResult and yields a ToolCall produces a step with exactly
\* one result, bound to the first ToolCall; one that carries a toolUseResult
\* and no tool_use block produces a step with no observation; and no event
\* changes a step built before it.
C13_AnyResult ==
  [][variant = "block" =>
       /\ BuiltStepsKept
       /\ (AssistantStep /\ CarriesResult(events[idx])) =>
            IF ToolUseAt(events[idx]) # {}
            THEN NewStepHasOneResult(FirstToolUseId(events[idx]))
            ELSE NewStepHasNoObservation]_vars

\* C13 as amended: in the content-block converter an assistant event whose
\* message and usage are objects, that carries a non-empty object as
\* toolUseResult and yields a ToolCall, produces a step with exactly one
\* result, bound to the first ToolCall, however many tool_use blocks it has
\* (an empty toolUseResult gives a step with no observation, one that is not
\* an object raises and gives no step); such an event with a toolUseResult
\* and no tool_use block produces a step with no observation; and no event
\* changes a step built before it.
C13_ObjectResult ==
  [][variant = "block" =>
       /\ BuiltStepsKept
       /\ (AssistantStep /\ CarriesResult(events[idx]) /\ MessageShaped(events[idx])) =>
            IF ToolUseAt(events[idx]) = {} THEN NewStepHasNoObservation
            ELSE IF CarriesResultObject(events[idx])
                 THEN NewStepHasOneResult(FirstToolUseId(events[idx]))
            ELSE IF IsDict(events[idx].toolUseResult) THEN NewStepHasNoObservation
            ELSE steps' = steps /\ outcome' = "exception"]_vars

\* C13 witness: an assistant event with two tool_use blocks and a
\* toolUseResult was just processed after another step; its step has one
\* result, bound to the first of its two ToolCalls.
C13_Witness ==
  /\ variant = "block"
  /\ pc = "loop"
  /\ idx > 2
  /\ Len(steps) >= 2
  /\ CarriesResultObject(events[idx - 1])
  /\ Cardinality(ToolUseAt(events[idx - 1])) = 2
  /\ Len(steps[Len(steps)].tool_calls) = 2
  /\ Len(steps[Len(steps)].observation.results) = 1
  /\ steps[Len(steps)].observation.results[1].source_call_id
       = steps[Len(steps)].tool_calls[1].tool_call_id

\* The event types a converter has a branch for.
HandledTypes(v) ==
  IF v = "flat" THEN {"user", "assistant", "tool_call", "tool_result"}
  ELSE {"user", "assistant"}

\* An object event whose type is unknown to the converter, or absent.
UnknownEvent(v, ev) == IsDict(ev) /\ Get(ev, "type", None) \notin HandledTypes(v)

\* An object event of type tool_result.
ResultEvent(ev) == IsDict(ev) /\ Get(ev, "type", None) = "tool_result"

\* C14: processing an event of unknown type, or without type, changes
\* neither the step counter nor the step list nor any observation and raises
\* nothing: the pass moves to the next event; and processing a tool_result
\* changes neither the step counter nor the length of the step list.
C14_NoStepNoChange ==
  [][InLoop =>
       /\ UnknownEvent(variant, events[idx]) =>
            /\ steps' = steps
            /\ step_id' = step_id
            /\ pc' = "loop"
            /\ outcome' = "running"
            /\ idx' = idx + 1
       /\ ResultEvent(events[idx]) =>
            /\ step_id' = step_id
            /\ Len(steps') = Len(steps)
            /\ pc' = "loop"]_vars

\* C14 witness: the flat converter just processed an event without type
\* after a tool_result that was attached to a step; counter and steps stand
\* where the tool_call left them.
C14_Witness ==
  /\ variant = "flat"
  /\ pc = "loop"
  /\ idx = 4
  /\ ResultEvent(events[2])
  /\ UnknownEvent(variant, events[3])
  /\ step_id = 1
  /\ Len(steps) = 1
  /\ steps[1].observation.present

\* C15: a step, once built, is never deleted or moved: the step list only
\* grows at its end, the returned trajectory holds exactly the steps built,
\* and in a step already built no field but the observation ever changes
\* (step_id, timestamp, source, message, model_name, reasoning_content,
\* tool_calls and metrics stay as created).
C15_StepsStable ==
  [][/\ Len(steps') >= Len(steps)
     /\ \A i \in 1..Len(steps) :
          /\ i <= Len(steps')
          /\ steps'[i] = [steps[i] EXCEPT !.observation = steps'[i].observation]
     /\ (trajectory'.present => trajectory'.steps = steps')]_vars

\* C15 witness: the flat converter attached a result to its first step
\* after a later step had been built; the first step is otherwise as the
\* tool_call event defined it.
C15_Witness ==
  /\ variant = "flat"
  /\ pc = "loop"
  /\ idx = 4
  /\ Len(steps) = 2
  /\ steps[2].source = "user"
  /\ steps[1].observation.present
  /\ steps[1].message = "Tool execution"
  /\ steps[1].step_id = 1
  /\ steps[1].tool_calls[1].tool_call_id = "a"

\* The flat pass is under way or has returned its trajectory: the events
\* before idx have all been processed.
FlatPassed == variant = "flat" /\ (pc = "loop" \/ trajectory.present)

\* The index of the event that built step i.
CreatorOf(i) ==
  CHOOSE j \in 1..Len(events) :
    OpensStep(variant, events[j]) /\ OpenedBy(variant, events, j) = i

\* The call id a tool_call event gives its ToolCall.
IssuedId(ev) == Get(ev, "tool_call_id", "")

\* An object event of type tool_call.
CallEvent(ev) == IsDict(ev) /\ Get(ev, "type", None) = "tool_call"

\* The first processed event after position j that issues the id again,
\* or idx when none does.
ReusedAt(id, j) ==
  LET later == {n \in (j + 1)..(idx - 1) : CallEvent(events[n]) /\ IssuedId(events[n]) = id}
  IN  IF later = {} THEN idx
      ELSE CHOOSE n \in later : \A m \in later : n <= m

\* The results of the tool_result events with the given id among
\* events[lo..hi], in log order.
RECURSIVE ResultsBetween(_, _, _)
ResultsBetween(id, lo, hi) ==
  IF lo > hi THEN <<>>
  ELSE (IF ResultEvent(events[lo]) /\ CallIdOf(events[lo]) = id
        THEN <<ObservationResult(id, ResultContent(events[lo]))>> ELSE <<>>)
       \o ResultsBetween(id, lo + 1, hi)

\* The results that followed the tool_call of step i before its id was reused.
ResultsFollowing(i) ==
  LET j  == CreatorOf(i)
      id == IssuedId(events[j])
  IN  ResultsBetween(id, j + 1, ReusedAt(id, j) - 1)

\* The steps built by tool_call events.
CallSteps == {i \in 1..Len(steps) : CallEvent(events[CreatorOf(i)])}

\* C16 as stated: in the flat converter the step of a tool_call holds
\* exactly the results of the tool_result events with its call id that
\* followed it before the id was reused, in log order; it has an observation
\* exactly when there is such an event.
C16_AnyId ==
  FlatPassed =>
    \A i \in CallSteps :
      /\ steps[i].observation.results = ResultsFollowing(i)
      /\ steps[i].observation.present <=> Len(ResultsFollowing(i)) > 0

\* C16 as amended: in the flat converter the step of a tool_call with a
\* non-empty call id holds exactly the results of the tool_result events with
\* that id that followed it before the id was reused, in log order, the
\* first creating the observation and each later one appended; the step of a
\* tool_call with the empty id never has an observation.
C16_NonEmptyId ==
  FlatPassed =>
    \A i \in CallSteps :
      IF IssuedId(events[CreatorOf(i)]) = ""
      THEN steps[i].observation = NoObservation
      ELSE /\ steps[i].observation.results = ResultsFollowing(i)
           /\ steps[i].observation.present <=> Len(ResultsFollowing(i)) > 0

\* C16 witness: two tool_result events with the id of the first step
\* followed its tool_call; the returned trajectory holds their two different
\* results in that order.
C16_Witness ==
  /\ variant = "flat"
  /\ trajectory.present
  /\ CallEvent(events[1])
  /\ Len(ResultsFollowing(1)) = 2
  /\ ResultsFollowing(1)[1] # ResultsFollowing(1)[2]
  /\ trajectory.steps[1].observation.results[1].content = ResultContent(events[2])
  /\ trajectory.steps[1].observation.results[2].content = ResultContent(events[3])

\* The call ids of the ToolCalls of a step.
CallIds(step) == {step.tool_calls[k].tool_call_id : k \in 1..Len(step.tool_calls)}

\* An observation, when there is one, sits on an agent step with a ToolCall,
\* has a result, and every result names a ToolCall of that step; without an
\* observation there are no results.
ObservationWellFormed(step) ==
  IF step.observation.present
  THEN /\ step.source = "agent"
       /\ Len(step.tool_calls) >= 1
       /\ Len(step.observation.results) >= 1
       /\ \A r \in 1..Len(step.observation.results) :
            step.observation.results[r].source_call_id \in CallIds(step)
  ELSE step.observation.results = <<>>

\* A user step has no tool calls, no observation and no metrics.
UserStepBare(step) ==
  step.source = "user" =>
    /\ step.tool_calls = NoToolCalls
    /\ ~step.observation.present
    /\ ~step.metrics.present

\* C17: in every reachable state of either converter every step's
\* observation is well formed (only on an agent step with at least one
\* ToolCall, non-empty, each result's source_call_id being the id of a
\* ToolCall of the same step) and user steps carry neither tool calls nor
\* an observation nor metrics; the same holds of the returned trajectory.
C17_WellFormed ==
  /\ \A i \in 1..Len(steps) :
       /\ steps[i].source \in {"user", "agent"}
       /\ ObservationWellFormed(steps[i])
       /\ UserStepBare(steps[i])
  /\ trajectory.present =>
       \A i \in 1..Len(trajectory.steps) :
         /\ ObservationWellFormed(trajectory.steps[i])
         /\ UserStepBare(trajectory.steps[i])

\* C17 witness: the content-block converter has built a user step, an agent
\* step with two ToolCalls and an observation, and an agent step made from an
\* event with a toolUseResult but no tool_use block, which has no observation.
C17_Witness ==
  /\ variant = "block"
  /\ Len(steps) = 3
  /\ \E i \in 1..3 : steps[i].source = "user"
  /\ \E i \in 1..3 : steps[i].observation.present /\ Len(steps[i].tool_calls) = 2
  /\ \E i \in 1..3 :
       /\ steps[i].source = "agent"
       /\ CarriesResult(events[i])
       /\ ToolUseAt(events[i]) = {}
       /\ ~steps[i].observation.present

\* The processed tool_result events that follow the tool_call of step i and
\* carry its call id.
FollowingResults(i) ==
  {j \in (CreatorOf(i) + 1)..(idx - 1) :
     ResultEvent(events[j]) /\ CallIdOf(events[j]) = IssuedId(events[CreatorOf(i)])}

\* C18: in the flat converter a tool_result is only ever bound to a step
\* built before it: the step of a tool_call has no more results than
\* matching tool_result events after it, and none at all (no observation)
\* when no matching tool_result follows, whatever matching results came
\* earlier in the log.
C18_NoEarlierResult ==
  FlatPassed =>
    \A i \in CallSteps :
      /\ Len(steps[i].observation.results) <= Cardinality(FollowingResults(i))
      /\ FollowingResults(i) = {} => steps[i].observation = NoObservation

\* C18 witness: a tool_result with id "a" came first and the tool_call with
\* id "a" after it; the trajectory is returned and the step of the call has
\* no observation.
C18_Witness ==
  /\ variant = "flat"
  /\ trajectory.present
  /\ Len(events) >= 2
  /\ ResultEvent(events[1])
  /\ CallEvent(events[2])
  /\ CallIdOf(events[1]) = IssuedId(events[2])
  /\ IssuedId(events[2]) # ""
  /\ FollowingResults(1) = {}
  /\ trajectory.steps[1].observation = NoObservation

\* The event carries usage data.
HasUsage(ev) == "usage" \in DOMAIN ev

\* C19: in the flat converter no step ever carries Metrics, so the three
\* token totals of a returned trajectory are all absent and a successful
\* conversion sets the three counters of the sink to 0, whatever usage data
\* the events carry.
C19_FlatNoMetrics ==
  variant = "flat" =>
    /\ \A i \in 1..Len(steps) : steps[i].metrics = NoMetrics
    /\ trajectory.present =>
         /\ \A i \in 1..Len(trajectory.steps) :
              trajectory.steps[i].metrics = NoMetrics
         /\ trajectory.final_metrics.total_prompt_tokens = NoCount
         /\ trajectory.final_metrics.total_completion_tokens = NoCount
         /\ trajectory.final_metrics.total_cached_tokens = NoCount
    /\ (pc = "done" /\ outcome = "ok") =>
         /\ ctx.n_input_tokens = 0
         /\ ctx.n_output_tokens = 0
         /\ ctx.n_cache_tokens = 0

\* C19 witness: a flat run over a log with an assistant event carrying
\* usage data succeeded; the sink, which held other values before, now
\* holds three zeros.
C19_Witness ==
  /\ variant = "flat"
  /\ pc = "done"
  /\ outcome = "ok"
  /\ model_name = "cfg"
  /\ \E j \in 1..Len(events) :
       /\ EventBranch(variant, events[j]) = "assistant"
       /\ HasUsage(events[j])
  /\ ctx.n_input_tokens = 0
  /\ ctx.n_output_tokens = 0
  /\ ctx.n_cache_tokens = 0

====
